---- MODULE Spec2Model ----
(***************************************************************************)
(* Rule-driven dispatch engine of AutomatedHomeV2.                         *)
(*                                                                         *)
(*   src/ah_master.py                 MQTTInterface (intake, drain loop),  *)
(*                                    DBInterface, AutomatedHomeMaster.stop *)
(*   src/RuleEngineWrapper/__init__.py  rule repository, type coercion,    *)
(*                                    rule evaluator                       *)
(*                                                                         *)
(* A Python str is a sequence of one-character strings, so that            *)
(* str.startswith, str.replace, str.rsplit and the `in` substring test are *)
(* computed on the text itself.                                            *)
(***************************************************************************)
EXTENDS Integers, Sequences, FiniteSets, TLC

VARIABLES
    messages,               \* MQTTInterface.messages: dict topic -> raw payload
    publish_queue,          \* MQTTInterface.publish_queue (queue.Queue)
    db_queue,               \* AutomatedHomeMaster.db_queue (queue.Queue)
    stop_event,             \* AutomatedHomeMaster.stop_event
    rules,                  \* RuleEngineWrapper.rules (None or a list)
    last_modified_time,     \* RuleEngineWrapper.last_modified_time
    current_modified_time,  \* local of load_and_run
    pcw,                    \* position of the rules_file_watcher thread
    file,                   \* the rule source on disk
    nedits,                 \* edits of the rule source so far
    pc,                     \* position of the message-delivery context
    msg,                    \* the message on_message is handling
    rule_filter,            \* argument of evaluate_rules
    preprocessed_data,      \* local of evaluate_rules
    it_rules,               \* the list object the for loop iterates over
    idx,                    \* position of that loop
    output,                 \* local of evaluate_rules
    evaluated,              \* history: rules given to the matcher in this pass
    iterated,               \* history: rules the loop of this pass has visited
    pcd,                    \* position of the drain loop of MQTTInterface.start
    published,              \* history: requests handed to client.publish
    net,                    \* broker: published messages on their way back
    nmsgs,                  \* device messages delivered so far
    nenq,                   \* history: requests put on publish_queue so far
    gate,                   \* history: what on_message did with its last message
    var_in,                 \* the argument s of a call of get_var
    var_out                 \* what that call returns or raises

vars == <<messages, publish_queue, db_queue, stop_event, rules,
          last_modified_time, current_modified_time, pcw, file, nedits,
          pc, msg, rule_filter, preprocessed_data, it_rules, idx, output,
          evaluated, iterated, pcd, published, net, nmsgs, nenq, gate,
          var_in, var_out>>

(***************************************************************************)
(* Bounds.                                                                 *)
(***************************************************************************)
MaxMsgs == 2
MaxEdits == 1
MaxLen == 3

(***************************************************************************)
(* Text.                                                                   *)
(***************************************************************************)
StartsWith(s, p) == Len(s) >= Len(p) /\ SubSeq(s, 1, Len(p)) = p

Replace(s, a, b) == [i \in 1..Len(s) |-> IF s[i] = a THEN b ELSE s[i]]

Contains(s, sub) ==
    \E i \in 0..(Len(s) - Len(sub)) : SubSeq(s, i + 1, i + Len(sub)) = sub

\* s.rsplit('/', 1)[0]
RSplitHead(s) ==
    IF \A i \in 1..Len(s) : s[i] # "/" THEN s
    ELSE LET k == CHOOSE i \in 1..Len(s) :
                      s[i] = "/" /\ \A j \in (i + 1)..Len(s) : s[j] # "/"
         IN  SubSeq(s, 1, k - 1)

RECURSIVE SplitWords(_)
SplitWords(s) ==
    IF \A i \in 1..Len(s) : s[i] # " " THEN <<s>>
    ELSE LET k == CHOOSE i \in 1..Len(s) :
                      s[i] = " " /\ \A j \in 1..(i - 1) : s[j] # " "
         IN  <<SubSeq(s, 1, k - 1)>> \o SplitWords(SubSeq(s, k + 1, Len(s)))

Digits == {"0", "1", "2", "3", "4", "5", "6", "7", "8", "9"}
Lowers == {"a", "b", "c", "d", "e", "f", "g", "h", "i", "j", "k", "l", "m",
           "n", "o", "p", "q", "r", "s", "t", "u", "v", "w", "x", "y", "z"}
Uppers == {"T", "F", "R", "U", "E", "A", "L", "S"}

DigitVal(c) ==
    CASE c = "0" -> 0 [] c = "1" -> 1 [] c = "2" -> 2 [] c = "3" -> 3
      [] c = "4" -> 4 [] c = "5" -> 5 [] c = "6" -> 6 [] c = "7" -> 7
      [] c = "8" -> 8 [] c = "9" -> 9

LowerChar(c) ==
    CASE c = "T" -> "t" [] c = "F" -> "f" [] c = "R" -> "r" [] c = "U" -> "u"
      [] c = "E" -> "e" [] c = "A" -> "a" [] c = "L" -> "l" [] c = "S" -> "s"
      [] OTHER -> c

Lower(s) == [i \in 1..Len(s) |-> LowerChar(s[i])]

(***************************************************************************)
(* Topics and payloads of the bounded runs.                                *)
(***************************************************************************)
GlobalPrefix == <<"/", "g", "l", "o", "b", "a", "l", "/">>
TopicPing == GlobalPrefix \o <<"p", "i", "n", "g", "/", "d", "e", "v", "i", "c", "e", "s">>
T_abc == <<"/", "a", "/", "b", "/", "c">>
T_glob == GlobalPrefix \o <<"m">>
T_bad == <<"a", "/", "b">>
T_xyz == <<"/", "x", "/", "y", "/", "z">>
T_abd == <<"/", "a", "/", "b", "/", "d">>

T_gz == GlobalPrefix \o <<"z">>
\* a topic with a wildcard: valid in a subscription, not in a publish
T_wild == <<"/", "x", "/", "#">>

\* the messages devices send in the runs
DeviceMsgs ==
    {[topic |-> T_abc, payload |-> <<"5">>], [topic |-> T_abc, payload |-> <<"6">>],
     [topic |-> T_glob, payload |-> <<"5">>], [topic |-> T_bad, payload |-> <<"5">>]}

\* datetime.now().strftime(...): one element stands for the 19 characters
Times == {"t1", "t2"}

NoMsg == [topic |-> <<>>, payload |-> <<>>]

(***************************************************************************)
(* Type coercion: RuleEngineWrapper._is_int .. get_var.                    *)
(* A value is [t, n, s]: its type, its number, its text.  The numerals of  *)
(* the runs are written with digits, a sign and '.', without blanks,       *)
(* underscores or an exponent.                                             *)
(***************************************************************************)
Str(s) == [t |-> "str", n |-> 0, s |-> s]
PyInt(n) == [t |-> "int", n |-> n, s |-> <<>>]
PyFloat(s) == [t |-> "float", n |-> 0, s |-> s]
PyBool(b) == [t |-> "bool", n |-> IF b THEN 1 ELSE 0, s |-> <<>>]
PyDict(s) == [t |-> "dict", n |-> 0, s |-> s]
PyNone == [t |-> "none", n |-> 0, s |-> <<>>]

PyEllipsis == [t |-> "ellipsis", n |-> 0, s |-> <<>>]

\* the call does not return: the exception e leaves it
Raised(e) == [t |-> "raise", n |-> 0, s |-> <<e>>]

\* no call of get_var is under way
NoVar == [t |-> "unset", n |-> 0, s |-> <<>>]

IsDigits(s) == Len(s) > 0 /\ \A i \in 1..Len(s) : s[i] \in Digits

Unsigned(s) == IF Len(s) > 0 /\ s[1] \in {"+", "-"} THEN SubSeq(s, 2, Len(s)) ELSE s

RECURSIVE DigitsValue(_)
DigitsValue(s) ==
    IF s = <<>> THEN 0
    ELSE 10 * DigitsValue(SubSeq(s, 1, Len(s) - 1)) + DigitVal(s[Len(s)])

\* int(s) of a str
IntValue(s) ==
    IF Len(s) > 0 /\ s[1] = "-" THEN 0 - DigitsValue(Unsigned(s))
    ELSE DigitsValue(Unsigned(s))

_is_int(v) ==
    \/ v.t = "int"
    \/ /\ v.t = "str"
       /\ Len(v.s) > 0
       /\ IsDigits(Unsigned(v.s))
       /\ \A i \in 1..Len(v.s) : v.s[i] \notin {".", "e"}

\* float(s) succeeds
FloatParses(s) ==
    LET u == Unsigned(s)
        dots == {i \in 1..Len(u) : u[i] = "."}
    IN  /\ Cardinality(dots) <= 1
        /\ \A i \in 1..Len(u) : u[i] \in Digits \cup {"."}
        /\ \E i \in 1..Len(u) : u[i] \in Digits

_is_float(v) ==
    \/ v.t = "float"
    \/ /\ v.t = "str"
       /\ Len(v.s) > 0
       /\ FloatParses(v.s)
       /\ \E i \in 1..Len(v.s) : v.s[i] = "." \/ LowerChar(v.s[i]) = "e"

_is_bool(v) ==
    \/ v.t = "bool"
    \/ /\ v.t = "str"
       /\ Len(v.s) > 0
       /\ Lower(v.s) \in {<<"t", "r", "u", "e">>, <<"f", "a", "l", "s", "e">>}

(***************************************************************************)
(* ast.literal_eval on the literals of the runs: a dict display            *)
(* {'k': 'v', "k2": True}.  ParseEntries gives [ok, kv], kv the entries in *)
(* order as <<key text, value text, value is a str>>.                      *)
(***************************************************************************)
Quotes == {"'", "\""}

\* the position of the first c in s after position from, 0 if none
FindFrom(s, c, from) ==
    IF \E i \in (from + 1)..Len(s) : s[i] = c
    THEN CHOOSE i \in (from + 1)..Len(s) :
             s[i] = c /\ \A j \in (from + 1)..(i - 1) : s[j] # c
    ELSE 0

BareLiterals == {<<"T", "r", "u", "e">>, <<"F", "a", "l", "s", "e">>}

NoParse == [ok |-> FALSE, kv |-> <<>>]

RECURSIVE ParseEntries(_)
ParseEntries(b) ==
    IF Len(b) < 6 \/ b[1] \notin Quotes THEN NoParse
    ELSE
      LET k == FindFrom(b, b[1], 1) IN
      IF k = 0 \/ Len(b) < k + 3 \/ b[k + 1] # ":" \/ b[k + 2] # " " THEN NoParse
      ELSE
        LET key == SubSeq(b, 2, k - 1)
            quoted == b[k + 3] \in Quotes
            j == IF quoted THEN FindFrom(b, b[k + 3], k + 3)
                 ELSE IF FindFrom(b, ",", k + 2) = 0 THEN Len(b)
                 ELSE FindFrom(b, ",", k + 2) - 1
        IN
        IF j = 0 THEN NoParse
        ELSE
          LET val == IF quoted THEN SubSeq(b, k + 4, j - 1) ELSE SubSeq(b, k + 3, j)
              rest == SubSeq(b, j + 1, Len(b))
              entry == <<key, val, quoted>>
          IN
          IF ~quoted /\ val \notin BareLiterals /\ ~IsDigits(val) THEN NoParse
          ELSE IF rest = <<>> THEN [ok |-> TRUE, kv |-> <<entry>>]
          ELSE IF Len(rest) < 3 \/ rest[1] # "," \/ rest[2] # " " THEN NoParse
          ELSE LET more == ParseEntries(SubSeq(rest, 3, Len(rest))) IN
               IF more.ok THEN [ok |-> TRUE, kv |-> <<entry>> \o more.kv]
               ELSE NoParse

\* ast.literal_eval(s): ok is FALSE where it raises ValueError or SyntaxError
literal_eval(s) ==
    IF Len(s) < 2 \/ s[1] # "{" \/ s[Len(s)] # "}" THEN NoParse
    ELSE IF Len(s) = 2 THEN [ok |-> TRUE, kv |-> <<>>]
    ELSE ParseEntries(SubSeq(s, 2, Len(s) - 1))

\* ast.literal_eval(s) raises TypeError: a dict display whose key is a list
\* display, {[1]: 2}, is built with an unhashable key
LiteralTypeError(s) ==
    LET k == FindFrom(s, "]", 2)
    IN  /\ Len(s) >= 8
        /\ s[1] = "{" /\ s[2] = "[" /\ s[Len(s)] = "}"
        /\ k > 3 /\ Len(s) >= k + 4
        /\ IsDigits(SubSeq(s, 3, k - 1))
        /\ s[k + 1] = ":" /\ s[k + 2] = " "
        /\ IsDigits(SubSeq(s, k + 3, Len(s) - 1))

\* ast.literal_eval(s) gives Ellipsis
IsEllipsis(s) == s = <<".", ".", ".">>

\* a str is a dict when literal_eval takes it; so is every value of another
\* type that reaches the last return
_is_dict(v) ==
    \/ v.t = "dict"
    \/ v.t = "str" /\ (literal_eval(v.s).ok \/ IsEllipsis(v.s))
    \/ v.t \notin {"dict", "str"}

RECURSIVE JoinEntries(_)
JoinEntries(kv) ==
    IF kv = <<>> THEN <<>>
    ELSE LET e == kv[1]
             one == <<"'">> \o e[1] \o <<"'", ":", " ">>
                    \o (IF e[3] THEN <<"'">> \o e[2] \o <<"'">> ELSE e[2])
         IN  IF Len(kv) = 1 THEN one
             ELSE one \o <<",", " ">> \o JoinEntries(Tail(kv))

\* str(d) of a dict
StrDict(kv) == <<"{">> \o JoinEntries(kv) \o <<"}">>

\* d[key] = val on a dict: an existing key keeps its place
SetItem(kv, key, val) ==
    IF \E i \in 1..Len(kv) : kv[i][1] = key
    THEN [i \in 1..Len(kv) |-> IF kv[i][1] = key THEN <<key, val, TRUE>> ELSE kv[i]]
    ELSE Append(kv, <<key, val, TRUE>>)

\* the real test before the integer test, and without the '.' condition
get_var_real_first(v) ==
    IF v.t = "float" \/ (v.t = "str" /\ Len(v.s) > 0 /\ FloatParses(v.s))
    THEN PyFloat(v.s)
    ELSE IF _is_int(v) THEN (IF v.t = "int" THEN v ELSE PyInt(IntValue(v.s)))
    ELSE IF _is_bool(v)
         THEN IF v.t = "bool" THEN Raised("AttributeError")
              ELSE PyBool(Lower(v.s) = <<"t", "r", "u", "e">>)
    ELSE IF v.t = "str" /\ LiteralTypeError(v.s) THEN Raised("TypeError")
    ELSE IF _is_dict(v)
         THEN IF v.t # "str" THEN Raised("ValueError")
              ELSE IF IsEllipsis(v.s) THEN PyEllipsis
              ELSE PyDict(StrDict(literal_eval(v.s).kv))
    ELSE v

\* lines 214-226.  int(s) and float(s) return a number as it is; s.lower()
\* of a bool raises AttributeError; _is_dict lets the TypeError of
\* literal_eval through; literal_eval of a value that is no str raises
\* ValueError
get_var(v) ==
    IF _is_int(v) THEN (IF v.t = "int" THEN v ELSE PyInt(IntValue(v.s)))
    ELSE IF _is_float(v) THEN PyFloat(v.s)
    ELSE IF _is_bool(v)
         THEN IF v.t = "bool" THEN Raised("AttributeError")
              ELSE PyBool(Lower(v.s) = <<"t", "r", "u", "e">>)
    ELSE IF v.t = "str" /\ LiteralTypeError(v.s) THEN Raised("TypeError")
    ELSE IF _is_dict(v)
         THEN IF v.t # "str" THEN Raised("ValueError")
              ELSE IF IsEllipsis(v.s) THEN PyEllipsis
              ELSE PyDict(StrDict(literal_eval(v.s).kv))
    ELSE v


(***************************************************************************)
(* Rules and actions.  A rule record of the YAML source is                 *)
(* [rule, actions]; an action is [form, topic, on]: form "text" is a str   *)
(* holding the dict literal {'topic': .., 'params': {'on': ..}}, form      *)
(* "map" is a YAML mapping with those keys (a dict instance).              *)
(***************************************************************************)
Eq5 == <<" ", "=", "=", " ", "5">>
Eq6 == <<" ", "=", "=", " ", "6">>

ActText(topic, on) == [form |-> "text", topic |-> topic, on |-> on]
ActMap(topic, on) == [form |-> "map", topic |-> topic, on |-> on]

R_abc5 == [rule |-> T_abc \o Eq5, actions |-> <<ActText(T_gz, TRUE)>>]
R_glob5 == [rule |-> T_glob \o Eq5, actions |-> <<ActText(T_gz, FALSE)>>]
R_glob5m == [rule |-> T_glob \o Eq5, actions |-> <<ActMap(T_gz, TRUE)>>]
R_abc6 == [rule |-> T_abc \o Eq6,
           actions |-> <<ActText(T_gz, FALSE), ActText(T_xyz, TRUE)>>]
R_abc5m == [rule |-> T_abc \o Eq5, actions |-> <<ActMap(T_gz, TRUE)>>]
R_abc6w == [rule |-> T_abc \o Eq6, actions |-> <<ActText(T_wild, TRUE)>>]

\* the actions of a rule record that has no 'actions' key
NoKey == <<[form |-> "nokey", topic |-> <<>>, on |-> FALSE]>>

\* line 256: rule_info['actions'] raises KeyError
RuleRaises(rule_info) == rule_info.actions = NoKey

\* the documents the rule source holds in the runs; "bad" does not parse
DocNames == {"A", "B", "C", "bad"}

\* yaml.safe_load(file)['rules'] of a document that parses
RuleDoc(d) ==
    IF d = "A" THEN <<R_abc5, R_glob5>>
    ELSE IF d = "B" THEN <<R_glob5m, R_abc6>>
    ELSE IF d = "C" THEN <<R_abc5m, R_abc6w>>
    ELSE <<>>

Parsable(d) == d \in {"A", "B", "C"}

NoneRules == [none |-> TRUE, list |-> <<>>]
SomeRules(l) == [none |-> FALSE, list |-> l]

(***************************************************************************)
(* The boolean-expression matcher (rule_engine.Rule, Rule.matches) on the  *)
(* expressions of the runs: <symbol> == <integer>.  Anything else is a     *)
(* RuleSyntaxError; a symbol that is no key of the data is a               *)
(* SymbolResolutionError.                                                  *)
(***************************************************************************)
IsSymbol(w) ==
    /\ Len(w) > 0
    /\ w[1] \in Lowers \cup Uppers \cup {"_"}
    /\ \A i \in 1..Len(w) : w[i] \in Lowers \cup Uppers \cup Digits \cup {"_"}

SyntaxOK(expr) ==
    LET w == SplitWords(expr)
    IN  /\ Len(w) = 3
        /\ IsSymbol(w[1])
        /\ w[2] = <<"=", "=">>
        /\ IsDigits(w[3])

\* the float written s (digits around one '.') has the integer value k
FloatIsInt(s, k) ==
    LET u == Unsigned(s)
        d == FindFrom(u, ".", 0)
    IN  /\ d > 0
        /\ \A i \in (d + 1)..Len(u) : u[i] = "0"
        /\ DigitsValue(SubSeq(u, 1, d - 1)) = (IF s[1] = "-" THEN 0 - k ELSE k)

\* all numbers are one type to the matcher; other types never equal a number
Matches(expr, data) ==
    LET w == SplitWords(expr)
        v == data[w[1]]
    IN  \/ v.t = "int" /\ v.n = DigitsValue(w[3])
        \/ v.t = "float" /\ FloatIsInt(v.s, DigitsValue(w[3]))

_preprocess_rule(rule_str) == Replace(rule_str, "/", "_")

\* the keys renamed, the values left as raw text
_preprocess_data_raw(data) ==
    LET keys == {Replace(t, "/", "_") : t \in DOMAIN data}
    IN  [k \in keys |->
            [t |-> "str", n |-> 0,
             s |-> data[CHOOSE t \in DOMAIN data : Replace(t, "/", "_") = k]]]

_preprocess_data(data) ==
    LET keys == {Replace(t, "/", "_") : t \in DOMAIN data}
    IN  [k \in keys |->
            get_var(Str(data[CHOOSE t \in DOMAIN data : Replace(t, "/", "_") = k]))]

\* line 260 left out: no pre-filter
RuleOutcomeUnfiltered(rule_info, data, flt) ==
    LET rule_str == _preprocess_rule(rule_info.rule)
    IN  IF RuleRaises(rule_info) THEN "error"
        ELSE IF ~SyntaxOK(rule_str) THEN "syntax"
        ELSE IF SplitWords(rule_str)[1] \notin DOMAIN data THEN "unresolved"
        ELSE IF Matches(rule_str, data) THEN "true"
        ELSE "false"

\* lines 255-277 for one rule: "error" is an exception raised outside the
\* try block of the loop body, the others are what the try block does
RuleOutcome(rule_info, data, flt) ==
    LET rule_str == _preprocess_rule(rule_info.rule)
    IN  IF RuleRaises(rule_info) THEN "error"
        ELSE IF ~Contains(rule_str, _preprocess_rule(flt)) THEN "filtered"
        ELSE IF ~SyntaxOK(rule_str) THEN "syntax"
        ELSE IF SplitWords(rule_str)[1] \notin DOMAIN data THEN "unresolved"
        ELSE IF Matches(rule_str, data) THEN "true"
        ELSE "false"


(***************************************************************************)
(* State after construction: AutomatedHomeMaster.__init__,                 *)
(* MQTTInterface.__init__, RuleEngineWrapper.__init__.                     *)
(***************************************************************************)
NoTime == 0

EmptyDict == [t \in {} |-> <<>>]

InitRest ==
    /\ publish_queue = <<>>
    /\ db_queue = <<>>
    /\ stop_event = FALSE
    /\ last_modified_time = NoTime
    /\ current_modified_time = NoTime
    /\ pcw = "run"
    /\ nedits = 0
    /\ msg = NoMsg
    /\ preprocessed_data = EmptyDict
    /\ it_rules = <<>>
    /\ idx = 0
    /\ output = <<>>
    /\ evaluated = <<>>
    /\ iterated = <<>>
    /\ pcd = "run"
    /\ published = <<>>
    /\ net = <<>>
    /\ nmsgs = 0
    /\ nenq = 0
    /\ gate = "none"
    /\ var_out = NoVar

Init ==
    /\ InitRest
    /\ messages = EmptyDict
    /\ rules = NoneRules
    /\ pc = "idle"
    /\ rule_filter = <<>>
    /\ var_in = NoVar
    /\ file \in {[exists |-> TRUE, mtime |-> 1, doc |-> "A"],
                 [exists |-> FALSE, mtime |-> 1, doc |-> "bad"]}

intake_vars == <<pc, msg, rule_filter, preprocessed_data, it_rules, idx,
                 output, evaluated, iterated>>
watcher_vars == <<rules, last_modified_time, current_modified_time, pcw>>
drain_vars == <<pcd, published, net>>
coerce_vars == <<var_in, var_out>>

(***************************************************************************)
(* The rule source and the rules_file_watcher thread.                      *)
(***************************************************************************)
\* the environment rewrites the rule source: a new modification time
EditFile ==
    /\ nedits < MaxEdits
    /\ \E d \in DocNames :
           file' = [exists |-> TRUE, mtime |-> file.mtime + 1, doc |-> d]
    /\ nedits' = nedits + 1
    /\ UNCHANGED <<messages, publish_queue, db_queue, stop_event, nmsgs, nenq, gate>>
    /\ UNCHANGED <<intake_vars, watcher_vars, drain_vars>>
    /\ UNCHANGED coerce_vars

\* the environment removes the rule source
DeleteFile ==
    /\ nedits < MaxEdits
    /\ file.exists
    /\ file' = [file EXCEPT !.exists = FALSE]
    /\ nedits' = nedits + 1
    /\ UNCHANGED <<messages, publish_queue, db_queue, stop_event, nmsgs, nenq, gate>>
    /\ UNCHANGED <<intake_vars, watcher_vars, drain_vars>>
    /\ UNCHANGED coerce_vars

\* load_rules: None when open or yaml.safe_load raises
load_rules ==
    IF file.exists /\ Parsable(file.doc) THEN SomeRules(RuleDoc(file.doc))
    ELSE NoneRules

\* load_and_run, lines 74-77: os.path.getmtime; FileNotFoundError is logged
\* and leaves the local as it was (unbound in the first iteration)
StatTime(cmt) == IF file.exists THEN file.mtime ELSE cmt

\* line 79: the test that lets an iteration load the source
Reloads(cmt) == last_modified_time = NoTime \/ cmt # last_modified_time

\* what line 81 stores in self.rules
Reloaded(old, loaded) == loaded

\* load_and_run, lines 73-84: one iteration.  Line 82 reads the local;
\* unbound, it raises UnboundLocalError and the thread ends
Poll ==
    /\ pcw = "run"
    /\ LET cmt == StatTime(current_modified_time)
       IN  /\ current_modified_time' = cmt
           /\ IF Reloads(cmt)
              THEN /\ rules' = Reloaded(rules, load_rules)
                   /\ IF cmt = NoTime
                      THEN /\ pcw' = "dead"
                           /\ UNCHANGED last_modified_time
                      ELSE /\ pcw' = "run"
                           /\ last_modified_time' = cmt
              ELSE UNCHANGED <<rules, last_modified_time, pcw>>
    /\ UNCHANGED <<file, nedits>>
    /\ UNCHANGED <<messages, publish_queue, db_queue, stop_event, nmsgs, nenq, gate>>
    /\ UNCHANGED <<intake_vars, drain_vars>>
    /\ UNCHANGED coerce_vars

(***************************************************************************)
(* Intake: MQTTInterface.on_message, with the evaluate_rules call in it.   *)
(***************************************************************************)
\* a store that keeps the first payload of a topic
PutIfAbsent(d, k, v) == [t \in DOMAIN d \cup {k} |-> IF t \in DOMAIN d THEN d[t] ELSE v]

\* d[k] = v on a dict
Put(d, k, v) == [t \in DOMAIN d \cup {k} |-> IF t = k THEN v ELSE d[t]]

\* line 189 left out
AcceptedAny(topic) == TRUE

\* line 189
Accepted(topic) == StartsWith(topic, <<"/">>)

\* line 192 left out: every message counts as a change
ChangedAlways(store, topic, payload) == TRUE

\* line 192
Changed(store, topic, payload) ==
    topic \notin DOMAIN store \/ store[topic] # payload

\* on_message, lines 186-199, for the message (topic, payload): the two
\* gates, the store update and the call of evaluate_rules
OnMessage(topic, payload) ==
    /\ IF Accepted(topic) /\ Changed(messages, topic, payload)
       THEN /\ messages' = Put(messages, topic, payload)
            /\ msg' = [topic |-> topic, payload |-> payload]
            /\ rule_filter' = topic
            /\ pc' = "enter"
       ELSE /\ pc' = "idle"
            /\ UNCHANGED <<messages, msg, rule_filter>>
    /\ gate' = IF ~Accepted(topic) THEN "ignored"
               ELSE IF Changed(messages, topic, payload) THEN "changed"
               ELSE "same"
    /\ UNCHANGED <<publish_queue, db_queue, stop_event, file, nedits, nenq>>
    /\ UNCHANGED <<preprocessed_data, it_rules, idx, output, evaluated, iterated>>
    /\ UNCHANGED <<watcher_vars, pcd, published>>
    /\ UNCHANGED coerce_vars

\* the transport delivers the message m of a device
Deliver(m) ==
    /\ pc = "idle"
    /\ pcd # "stopped"
    /\ nmsgs < MaxMsgs
    /\ nmsgs' = nmsgs + 1
    /\ OnMessage(m.topic, m.payload)
    /\ UNCHANGED net

Receive == \E m \in DeviceMsgs : Deliver(m)

\* the broker delivers one of the engine's own publishes (subscription '#')
ReceiveEcho ==
    /\ pc = "idle"
    /\ pcd # "stopped"
    /\ net # <<>>
    /\ net' = Tail(net)
    /\ OnMessage(Head(net).topic, Head(net).payload)
    /\ UNCHANGED nmsgs

\* line 244 left out: the pass goes on to the loop
IsNoneNever(r) == FALSE

\* line 244: self.rules is None
IsNone(r) == r.none

\* line 249: get_var raises on a value of the snapshot.  The values of the
\* store are str, and get_var raises on a str only where literal_eval
\* raises TypeError
PreprocessRaises(data) == \E t \in DOMAIN data : LiteralTypeError(data[t])

\* evaluate_rules, lines 239-249; an exception of line 249 is caught at line
\* 279 and the empty output is returned
EvalEnter ==
    /\ pc = "enter"
    /\ output' = <<>>
    /\ evaluated' = <<>>
    /\ iterated' = <<>>
    /\ IF IsNone(rules) \/ PreprocessRaises(messages)
       THEN /\ pc' = "ret"
            /\ UNCHANGED preprocessed_data
       ELSE /\ pc' = "iter"
            /\ preprocessed_data' = _preprocess_data(messages)
    /\ UNCHANGED <<messages, publish_queue, db_queue, stop_event, file, nedits,
                   nmsgs, nenq, gate>>
    /\ UNCHANGED <<msg, rule_filter, it_rules, idx>>
    /\ UNCHANGED <<watcher_vars, drain_vars>>
    /\ UNCHANGED coerce_vars

\* evaluate_rules, line 252: the for statement evaluates self.rules once; on
\* None it raises TypeError, caught at line 279
IterStart ==
    /\ pc = "iter"
    /\ IF rules.none \/ rules.list = <<>>
       THEN /\ pc' = "ret"
            /\ UNCHANGED <<it_rules, idx>>
       ELSE /\ it_rules' = rules.list
            /\ idx' = 1
            /\ pc' = "loop"
    /\ UNCHANGED <<messages, publish_queue, db_queue, stop_event, file, nedits,
                   nmsgs, nenq, gate>>
    /\ UNCHANGED <<msg, rule_filter, preprocessed_data, output, evaluated, iterated>>
    /\ UNCHANGED <<watcher_vars, drain_vars>>
    /\ UNCHANGED coerce_vars

\* a loop that reads self.rules[i] again in every iteration
NextRuleCurrent(it, current, i) ==
    IF ~current.none /\ i <= Len(current.list) THEN current.list[i] ELSE it[i]

\* the rule the loop visits at position i: the next item of the list object
\* taken at line 252, whatever self.rules has become since
NextRule(it, current, i) == it[i]

\* only the first action of a matching rule is collected
CollectFirst(out, rule_info, outcome) ==
    IF outcome = "true" /\ rule_info.actions # <<>>
    THEN Append(out, rule_info.actions[1]) ELSE out

\* lines 270-277: the output after a rule with this outcome
Collect(out, rule_info, outcome) ==
    IF outcome = "true" THEN out \o rule_info.actions ELSE out

\* the two except clauses around the loop instead of inside it
LoopStopsOnError(outcome) == outcome \notin {"syntax", "unresolved", "error"}

\* the pass goes on after an exception that was not caught
LoopNeverStops(outcome) == TRUE

\* lines 272-279: the loop goes on after every outcome of the try block; any
\* other exception leaves the loop for the except clause of line 279
LoopGoesOn(outcome) == outcome # "error"

\* evaluate_rules, lines 252-277: one iteration of the loop
EvalStep ==
    /\ pc = "loop"
    /\ LET rule_info == NextRule(it_rules, rules, idx)
           outcome == RuleOutcome(rule_info, preprocessed_data, rule_filter)
       IN  /\ output' = Collect(output, rule_info, outcome)
           /\ iterated' = Append(iterated, rule_info)
           /\ evaluated' = IF outcome \in {"filtered", "error"} THEN evaluated
                           ELSE Append(evaluated, rule_info)
           /\ IF idx < Len(it_rules) /\ LoopGoesOn(outcome)
              THEN /\ idx' = idx + 1
                   /\ pc' = "loop"
              ELSE /\ idx' = 0
                   /\ pc' = "ret"
    /\ it_rules' = IF pc' = "ret" THEN <<>> ELSE it_rules
    /\ UNCHANGED <<messages, publish_queue, db_queue, stop_event, file, nedits,
                   nmsgs, nenq, gate>>
    /\ UNCHANGED <<msg, rule_filter, preprocessed_data>>
    /\ UNCHANGED <<watcher_vars, drain_vars>>
    /\ UNCHANGED coerce_vars


\* str(action_dict['params']) for params {'on': on}
StrParams(on) ==
    <<"{", "'", "o", "n", "'", ":", " ">>
    \o (IF on THEN <<"T", "r", "u", "e">> ELSE <<"F", "a", "l", "s", "e">>)
    \o <<"}">>

\* get_var(action) raises: for a dict instance _is_dict is true and line 224
\* gives it to ast.literal_eval, which raises ValueError
ActionRaises(action) == action.form = "map"

\* line 205: the tuple put on publish_queue for an action
ActionTuple(action) ==
    [topic |-> action.topic, payload |-> Replace(StrParams(action.on), "'", "\"")]

\* a queue element: the tuple, with its place in the order of all puts and
\* its producer as history
Request(tuple, n, src) ==
    [topic |-> tuple.topic, payload |-> tuple.payload, seq |-> n, src |-> src]

\* the actions of acts before the first one whose dispatch raises
RECURSIVE Dispatchable(_)
Dispatchable(acts) ==
    IF acts = <<>> \/ ActionRaises(acts[1]) THEN <<>>
    ELSE <<acts[1]>> \o Dispatchable(Tail(acts))

ActionRequests(acts, n) ==
    [i \in 1..Len(acts) |-> Request(ActionTuple(acts[i]), n + i, "rule")]

\* line 209
Reserved(topic) == StartsWith(topic, GlobalPrefix)

\* queue.Queue() has no maxsize: put never finds the queue full
QueueFull(q) == FALSE

\* the requests this step has put on publish_queue
NewRequests ==
    SubSeq(publish_queue', Len(publish_queue) + 1, Len(publish_queue'))

\* the ping request is put before the requests of the actions
EnqueuePingFirst(q, reqs, ping) == (q \o ping) \o reqs

\* the puts of the action loop (line 205) come before the put of the ping
\* request (line 219)
Enqueue(q, reqs, ping) == (q \o reqs) \o ping

\* on_message publishes what it enqueues itself
CallbackPublishesAll(reqs) == reqs

\* lines 206 and 220: the client.publish calls of on_message are comments;
\* the callback hands none of its requests to the transport
CallbackPublishes(reqs) == <<>>

\* lines 201-224: the actions are put on publish_queue in order; outside
\* /global/ the update goes to db_queue and the ping record is rebuilt from
\* the stored ping payload and put on publish_queue.  An exception anywhere
\* ends the handler at line 223.
Dispatch ==
    /\ pc = "ret"
    /\ ~QueueFull(publish_queue)
    /\ ~QueueFull(db_queue)
    /\ LET good == Dispatchable(output)
           reqs == ActionRequests(good, nenq)
           seeded == IF TopicPing \in DOMAIN messages THEN messages
                     ELSE Put(messages, TopicPing, <<"{", "}">>)
           ping_dict == literal_eval(seeded[TopicPing])
       IN  IF Len(good) < Len(output)
           THEN /\ publish_queue' = publish_queue \o reqs
                /\ nenq' = nenq + Len(reqs)
                /\ UNCHANGED <<messages, db_queue>>
           ELSE IF Reserved(msg.topic)
           THEN /\ publish_queue' = publish_queue \o reqs
                /\ nenq' = nenq + Len(reqs)
                /\ UNCHANGED <<messages, db_queue>>
           ELSE /\ db_queue' = Append(db_queue, <<msg.topic, msg.payload>>)
                /\ messages' = seeded
                /\ IF ping_dict.ok
                   THEN \E now \in Times :
                          /\ publish_queue' = Enqueue(publish_queue, reqs,
                               <<Request([topic |-> TopicPing,
                                          payload |-> StrDict(SetItem(ping_dict.kv,
                                                        RSplitHead(msg.topic), <<now>>))],
                                         nenq + Len(reqs) + 1, "ping")>>)
                          /\ nenq' = nenq + Len(reqs) + 1
                   ELSE /\ publish_queue' = publish_queue \o reqs
                        /\ nenq' = nenq + Len(reqs)
    /\ pc' = "idle"
    /\ msg' = NoMsg
    /\ output' = <<>>
    /\ evaluated' = <<>>
    /\ iterated' = <<>>
    /\ rule_filter' = <<>>
    /\ preprocessed_data' = EmptyDict
    /\ published' = published \o CallbackPublishes(NewRequests)
    /\ UNCHANGED <<stop_event, file, nedits, nmsgs, it_rules, idx, gate>>
    /\ UNCHANGED <<watcher_vars, pcd, net>>
    /\ UNCHANGED coerce_vars

(***************************************************************************)
(* Dispatcher: the drain loop of MQTTInterface.start.                      *)
(***************************************************************************)
\* a stack in place of the queue: the newest element
QueueGetNewest(q) == [item |-> q[Len(q)], rest |-> SubSeq(q, 1, Len(q) - 1)]

\* a get that leaves the element on the queue
QueueGetKeep(q) == [item |-> Head(q), rest |-> q]

\* queue.Queue.get: the oldest element
QueueGet(q) == [item |-> Head(q), rest |-> Tail(q)]

\* client.publish(topic, payload) raises ValueError for an empty topic and
\* for a topic with a wildcard; start catches queue.Empty only
PublishRaises(r) ==
    r.topic = <<>> \/ \E i \in 1..Len(r.topic) : r.topic[i] \in {"#", "+"}

\* lines 239-240: nothing reads the stop signal between the loop test and
\* the end of the iteration
PublishGoesOn(stop) == TRUE

\* line 237: the loop test finds the stop signal not set
DrainCheck ==
    /\ pcd = "run"
    /\ ~stop_event
    /\ pcd' = "body"
    /\ UNCHANGED <<messages, publish_queue, db_queue, stop_event, file, nedits,
                   nmsgs, nenq, gate, published, net>>
    /\ UNCHANGED <<intake_vars, watcher_vars>>
    /\ UNCHANGED coerce_vars

\* lines 239-240: get returns a request and it is handed to client.publish;
\* the broker sends the publish back.  When publish raises, the exception
\* leaves start: the thread ends without loop_stop and disconnect
Publish(from) ==
    /\ pcd = from
    /\ PublishGoesOn(stop_event)
    /\ publish_queue # <<>>
    /\ LET g == QueueGet(publish_queue)
       IN  /\ publish_queue' = g.rest
           /\ published' = Append(published, g.item)
           /\ IF PublishRaises(g.item)
              THEN /\ pcd' = "dead"
                   /\ net' = net
              ELSE /\ pcd' = "run"
                   /\ net' = Append(net, g.item)
    /\ UNCHANGED <<messages, db_queue, stop_event, file, nedits, nmsgs, nenq, gate>>
    /\ UNCHANGED <<intake_vars, watcher_vars>>
    /\ UNCHANGED coerce_vars

DrainPublish == Publish("body")

\* lines 237-240 in one step: loop test, get and publish
DrainIteration == ~stop_event /\ Publish("run")

\* lines 239, 241-242: get times out on the empty queue
DrainEmpty ==
    /\ pcd = "body"
    /\ publish_queue = <<>>
    /\ pcd' = "run"
    /\ UNCHANGED <<messages, publish_queue, db_queue, stop_event, file, nedits,
                   nmsgs, nenq, gate, published, net>>
    /\ UNCHANGED <<intake_vars, watcher_vars>>
    /\ UNCHANGED coerce_vars

\* lines 237, 245-247: the loop test finds the stop signal set; loop_stop
\* ends the network loop that runs on_message, disconnect follows
DrainExit ==
    /\ pcd = "run"
    /\ stop_event
    /\ pcd' = "stopped"
    /\ UNCHANGED <<messages, publish_queue, db_queue, stop_event, file, nedits,
                   nmsgs, nenq, gate, published, net>>
    /\ UNCHANGED <<intake_vars, watcher_vars>>
    /\ UNCHANGED coerce_vars

(***************************************************************************)
(* Persistence consumer and the stop signal.                               *)
(***************************************************************************)
\* DBInterface.start: one record taken from db_queue
DbStore ==
    /\ ~stop_event
    /\ db_queue # <<>>
    /\ db_queue' = Tail(db_queue)
    /\ UNCHANGED <<messages, publish_queue, stop_event, file, nedits, nmsgs, nenq, gate>>
    /\ UNCHANGED <<intake_vars, watcher_vars, drain_vars>>
    /\ UNCHANGED coerce_vars

\* AutomatedHomeMaster.stop
Stop ==
    /\ ~stop_event
    /\ stop_event' = TRUE
    /\ UNCHANGED <<messages, publish_queue, db_queue, file, nedits, nmsgs, nenq, gate>>
    /\ UNCHANGED <<intake_vars, watcher_vars, drain_vars>>
    /\ UNCHANGED coerce_vars

(***************************************************************************)
(* Spec: the engine while the stop signal is not given: intake, rule       *)
(* evaluation, the reload loop and the drain loop.  SpecStop adds the stop *)
(* signal, with the drain loop's iteration in its steps, and the           *)
(* persistence consumer.                                                   *)
(***************************************************************************)
Core ==
    \/ EditFile
    \/ DeleteFile
    \/ Poll
    \/ Receive
    \/ ReceiveEcho
    \/ EvalEnter
    \/ IterStart
    \/ EvalStep
    \/ Dispatch

\* With the stop signal never set the loop test always passes and an
\* iteration whose get times out changes nothing: an iteration of the
\* drain loop is one step.
Next ==
    \/ Core
    \/ DrainIteration

Spec == Init /\ [][Next]_vars

NextStop ==
    \/ Core
    \/ DrainCheck
    \/ DrainPublish
    \/ DrainEmpty
    \/ DrainExit
    \/ DbStore
    \/ Stop

SpecStop == Init /\ [][NextStop]_vars

\* Every thread of the process keeps being scheduled: the
\* rules_file_watcher thread, the network loop of the client that runs
\* on_message (with evaluate_rules inside it), the mqtt_interface thread
\* and the db_interface thread; the broker delivers what was published.
\* Devices, the editor of the rule source and the stop signal are free.
Fairness ==
    /\ WF_vars(Poll)
    /\ WF_vars(ReceiveEcho)
    /\ WF_vars(EvalEnter)
    /\ WF_vars(IterStart)
    /\ WF_vars(EvalStep)
    /\ WF_vars(Dispatch)
    /\ WF_vars(DrainCheck)
    /\ WF_vars(DrainPublish)
    /\ WF_vars(DrainEmpty)
    /\ WF_vars(DrainExit)
    /\ WF_vars(DbStore)

SpecFair == Init /\ [][NextStop]_vars /\ Fairness

(***************************************************************************)
(* SpecRun: the engine from the state after the first poll of a rule       *)
(* source that exists and parses, the source left alone afterwards:        *)
(* intake, evaluation, the drain loop in its steps, the persistence        *)
(* consumer and the stop signal, under the same scheduling.                *)
(***************************************************************************)
InitRun ==
    /\ publish_queue = <<>>
    /\ db_queue = <<>>
    /\ stop_event = FALSE
    /\ \E d \in {x \in DocNames : Parsable(x)} :
           /\ file = [exists |-> TRUE, mtime |-> 1, doc |-> d]
           /\ rules = SomeRules(RuleDoc(d))
    /\ last_modified_time = 1
    /\ current_modified_time = 1
    /\ var_in = NoVar
    /\ pcw = "run"
    /\ nedits = 0
    /\ messages = EmptyDict
    /\ pc = "idle"
    /\ msg = NoMsg
    /\ rule_filter = <<>>
    /\ preprocessed_data = EmptyDict
    /\ it_rules = <<>>
    /\ idx = 0
    /\ output = <<>>
    /\ evaluated = <<>>
    /\ iterated = <<>>
    /\ pcd = "run"
    /\ published = <<>>
    /\ net = <<>>
    /\ nmsgs = 0
    /\ nenq = 0
    /\ gate = "none"
    /\ var_out = NoVar

NextRun ==
    \/ Receive
    \/ ReceiveEcho
    \/ EvalEnter
    \/ IterStart
    \/ EvalStep
    \/ Dispatch
    \/ DrainCheck
    \/ DrainPublish
    \/ DrainEmpty
    \/ DrainExit
    \/ DbStore
    \/ Stop

SpecRun == InitRun /\ [][NextRun]_vars /\ Fairness

\* intake and drain loop with a RuleSet that stays as loaded and the stop
\* signal never set.  The drain loop runs in a thread of its own
\* (ah_master.py lines 89, 93): an iteration that stays possible is taken.
NextDrain ==
    \/ Receive
    \/ ReceiveEcho
    \/ EvalEnter
    \/ IterStart
    \/ EvalStep
    \/ Dispatch
    \/ DrainIteration

SpecDrain == InitRun /\ [][NextDrain]_vars /\ WF_vars(DrainIteration)


(***************************************************************************)
(* SpecEval: evaluate_rules as a function of its inputs.  The snapshot,    *)
(* the RuleSet and the filter are drawn from bounded sets; the actions are *)
(* the steps of evaluate_rules, with nothing running beside them.          *)
(***************************************************************************)
MaxRules == 2

\* a rule whose expression does not parse
R_syntax == [rule |-> T_abc \o <<" ", "=", "=">>, actions |-> <<ActText(T_gz, TRUE)>>]
\* a rule over a topic no snapshot of the runs holds
R_absent == [rule |-> T_abd \o Eq5, actions |-> <<ActText(T_gz, TRUE)>>]
\* the rule a_b_c == 5 and the rule _a_b_c == 5
R_plain == [rule |-> <<"a", "_", "b", "_", "c">> \o Eq5,
            actions |-> <<ActMap(T_xyz, TRUE)>>]
R_under == [rule |-> <<"_", "a", "_", "b", "_", "c">> \o Eq5,
            actions |-> <<ActMap(T_xyz, TRUE)>>]
\* a rule record without the 'actions' key
R_nokey == [rule |-> T_abc \o Eq5, actions |-> NoKey]

\* a payload literal_eval raises TypeError on
P_unhash == <<"{", "[", "1", "]", ":", " ", "2", "}">>

RulePool ==
    {R_abc5, R_abc6, R_glob5m, R_syntax, R_absent, R_plain, R_under, R_nokey}

RECURSIVE SeqsUpTo(_, _)
SeqsUpTo(S, n) ==
    IF n = 0 THEN {<<>>}
    ELSE LET shorter == SeqsUpTo(S, n - 1)
         IN  shorter \cup {Append(q, x) : q \in shorter, x \in S}

Snapshots ==
    UNION {[D -> {<<"5">>, <<"6">>, P_unhash}] : D \in SUBSET {T_abc, T_glob}}

Filters == {<<>>, T_abc, T_glob}

\* evaluate_rules(data, rule_filter) is called
InitEval ==
    /\ InitRest
    /\ file = [exists |-> TRUE, mtime |-> 1, doc |-> "A"]
    /\ messages \in Snapshots
    /\ rules \in {NoneRules} \cup {SomeRules(rs) : rs \in SeqsUpTo(RulePool, MaxRules)}
    /\ rule_filter \in Filters
    /\ pc = "enter"
    /\ var_in = NoVar

NextEval ==
    \/ EvalEnter
    \/ IterStart
    \/ EvalStep

SpecEval == InitEval /\ [][NextEval]_vars


(***************************************************************************)
(* SpecCoerce: get_var as a function of its argument.  The argument is     *)
(* drawn from the values below; the one action is the call.                *)
(***************************************************************************)
\* the characters of the numerals
NumeralChars == {"5", "0", ".", "-"}

T_5 == <<"5">>
T_5_0 == <<"5", ".", "0">>
T_True == <<"T", "r", "u", "e">>
T_false == <<"f", "a", "l", "s", "e">>
T_TRUE == <<"T", "R", "U", "E">>
T_a1 == <<"{", "'", "a", "'", ":", " ", "1", "}">>
T_ab == <<"{", "\"", "a", "\"", ":", " ", "\"", "b", "\"", "}">>
T_open == <<"{", "'", "a", "'", ":", " ", "1">>
T_hello == <<"h", "e", "l", "l", "o">>
T_plus5 == <<"+", "5">>

Texts ==
    SeqsUpTo(NumeralChars, MaxLen)
    \cup {T_5, T_5_0, T_True, T_false, T_TRUE, T_a1, T_ab, T_open, T_hello,
          T_plus5, <<"{", "}">>, P_unhash}

\* a str, or a value that has a type already
CoerceInputs ==
    {Str(w) : w \in Texts}
    \cup {PyInt(5), PyInt(0 - 5), PyFloat(T_5_0), PyBool(TRUE), PyBool(FALSE),
          PyDict(T_a1), PyDict(<<"{", "}">>), PyNone}

InitCoerce ==
    /\ InitRest
    /\ file = [exists |-> TRUE, mtime |-> 1, doc |-> "A"]
    /\ messages = EmptyDict
    /\ rules = NoneRules
    /\ rule_filter = <<>>
    /\ pc = "idle"
    /\ var_in \in CoerceInputs

\* get_var(s) is called and returns or raises
GetVar ==
    /\ var_in # NoVar
    /\ var_out = NoVar
    /\ var_out' = get_var(var_in)
    /\ UNCHANGED <<messages, publish_queue, db_queue, stop_event, file, nedits,
                   nmsgs, nenq, gate, var_in>>
    /\ UNCHANGED <<intake_vars, watcher_vars, drain_vars>>

NextCoerce == GetVar

SpecCoerce == InitCoerce /\ [][NextCoerce]_vars


(***************************************************************************)
(* Properties.                                                             *)
(***************************************************************************)
IsPrefix(a, b) == Len(a) <= Len(b) /\ SubSeq(b, 1, Len(a)) = a

Tuples(q) == [i \in 1..Len(q) |-> [topic |-> q[i].topic, payload |-> q[i].payload]]

SameAsStored(m) == m.topic \in DOMAIN messages /\ messages[m.topic] = m.payload

\* the message at the head of the broker's queue
EchoMsg == [topic |-> Head(net).topic, payload |-> Head(net).payload]

\* C1: Dispatcher FIFO.  Every request carries its place in the order of
\* all puts on publish_queue, whichever producer put it; the k-th call of
\* publish is for the k-th request put, so a request put earlier is
\* published earlier.
C1_Fifo == \A i \in 1..Len(published) : published[i].seq = i

\* a rule action and a ping record, from the two producers, both published
C1_Witness ==
    \E i, j \in 1..Len(published) :
        i < j /\ published[i].src = "rule" /\ published[j].src = "ping"

\* the handler returned at once and touched nothing
C2_Untouched ==
    /\ messages' = messages
    /\ publish_queue' = publish_queue
    /\ db_queue' = db_queue
    /\ nenq' = nenq
    /\ pc' = "idle"

C2_Step ==
    /\ \A m \in DeviceMsgs : (Deliver(m) /\ SameAsStored(m)) => C2_Untouched
    /\ (ReceiveEcho /\ SameAsStored(EchoMsg)) => C2_Untouched

\* C2: De-duplication gate.  Whenever on_message handles a message whose
\* payload equals the stored value of its topic, the store, publish_queue
\* and db_queue stay as they are and evaluate_rules is not entered (no
\* evaluation, no dispatch, no persistence, no ping), at every repeat.
C2_DedupGate == [][C2_Step]_vars

\* a repeated payload has just been handled
C2_Witness == gate = "same" /\ pc = "idle" /\ messages # EmptyDict

C3_Keys == \A t \in DOMAIN messages : StartsWith(t, <<"/">>)

C3_Step ==
    \A m \in DeviceMsgs :
        (Deliver(m) /\ ~StartsWith(m.topic, <<"/">>)) =>
            /\ messages' = messages
            /\ publish_queue' = publish_queue
            /\ db_queue' = db_queue
            /\ pc' = "idle"

\* C3: every key of the state store starts with '/', and a delivered
\* message whose topic does not start with '/' leaves the store,
\* publish_queue and db_queue unchanged.
C3_SlashTopics == []C3_Keys /\ [][C3_Step]_vars

\* a message on a topic without the leading '/' has just been handled
C3_Witness == gate = "ignored" /\ nmsgs > 0

\* C4: a reload whose parse fails leaves the previous RuleSet in effect,
\* and once a RuleSet is loaded self.rules is never None again.
C4_PreviousKept ==
    [][/\ (Poll /\ load_rules.none /\ ~rules.none) => rules' = rules
       /\ ~rules.none => ~rules'.none]_vars

\* C5: Reload atomicity.  The rules one evaluation pass has visited are the
\* first rules of a single RuleSet of the source, also when load_and_run
\* replaces self.rules while the pass is running.
C5_OneRuleSet ==
    \E d \in {x \in DocNames : Parsable(x)} : IsPrefix(iterated, RuleDoc(d))

\* the loop is between two rules and self.rules is no longer its list
C5_Witness ==
    /\ pc = "loop"
    /\ idx = 2
    /\ Len(iterated) = 1
    /\ rules # SomeRules(it_rules)


\* the try block of lines 258-277 raises on rule r in the call under way
Raises(r) ==
    RuleOutcome(r, _preprocess_data(messages), rule_filter) \in {"syntax", "unresolved"}

\* r passes the pre-filter and its expression is true in the snapshot
Triggered(r) == RuleOutcome(r, _preprocess_data(messages), rule_filter) = "true"

\* the pass meets an exception that is no syntax error and no unresolved
\* identifier: in the preprocessing of the snapshot or at a rule record
UnexpectedError ==
    \/ PreprocessRaises(messages)
    \/ ~rules.none /\ \E i \in 1..Len(rules.list) : RuleRaises(rules.list[i])

RECURSIVE ExpectedOutput(_)
ExpectedOutput(rs) ==
    IF rs = <<>> THEN <<>>
    ELSE (IF Triggered(rs[1]) THEN rs[1].actions ELSE <<>>) \o ExpectedOutput(Tail(rs))

\* C6: a rule with a syntax error or an unresolved identifier contributes no
\* action and does not end the pass: the loop has visited every rule of the
\* RuleSet, and the output holds all actions of every rule that passes the
\* filter and evaluates true, those after the failing rule included.  (A
\* pass that an unexpected error ends is the case of C21.)
C6_ErrorSkipsOneRule ==
    (/\ pc = "ret" /\ ~rules.none /\ ~UnexpectedError
     /\ \E i \in 1..Len(rules.list) : Raises(rules.list[i]))
    => (iterated = rules.list /\ output = ExpectedOutput(rules.list))

\* a failing rule first, a matching rule after it, whose actions are returned
C6_Witness ==
    /\ pc = "ret"
    /\ ~rules.none
    /\ Len(rules.list) = 2
    /\ Raises(rules.list[1])
    /\ Triggered(rules.list[2])
    /\ output = rules.list[2].actions

PassesFilter(r) ==
    Contains(Replace(r.rule, "/", "_"), Replace(rule_filter, "/", "_"))

\* C7: Pre-filter.  With a non-empty filter the matcher is only given rules
\* whose preprocessed expression contains the preprocessed filter, and
\* every returned action is an action of a rule given to the matcher; with
\* the empty filter every visited rule whose record is whole is given to
\* the matcher.
C7_PreFilter ==
    /\ rule_filter # <<>> =>
           \A i \in 1..Len(evaluated) : PassesFilter(evaluated[i])
    /\ rule_filter = <<>> =>
           evaluated = SelectSeq(iterated, LAMBDA r : ~RuleRaises(r))
    /\ \A k \in 1..Len(output) :
           \E i \in 1..Len(evaluated) :
               \E a \in 1..Len(evaluated[i].actions) : output[k] = evaluated[i].actions[a]

\* the pass is over; a rule that is true in the snapshot does not mention
\* the filter and was never given to the matcher
C7_Witness ==
    /\ pc = "ret"
    /\ rule_filter # <<>>
    /\ ~rules.none
    /\ iterated = rules.list
    /\ \E i \in 1..Len(rules.list) :
           /\ ~PassesFilter(rules.list[i])
           /\ RuleOutcome(rules.list[i], _preprocess_data(messages), <<>>) = "true"
           /\ \A k \in 1..Len(evaluated) : evaluated[k] # rules.list[i]

\* evaluate_rules has returned from the call with the store /a/b/c = "5",
\* the single rule r and the default filter
C8_Case(r) ==
    /\ pc = "ret"
    /\ messages = [t \in {T_abc} |-> <<"5">>]
    /\ rules = SomeRules(<<r>>)
    /\ rule_filter = <<>>

\* C8 as stated: with the store /a/b/c = "5" and the single rule
\* a_b_c == 5 -> {topic: /x/y/z, parameters: {on: true}}, evaluate_rules
\* returns exactly that one action.
C8_Original == C8_Case(R_plain) => output = R_plain.actions

\* C8 as amended: the identifier of /a/b/c is _a_b_c.  With the single rule
\* _a_b_c == 5 evaluate_rules returns exactly the one action; with
\* a_b_c == 5 the identifier is unresolved and the output is empty.
C8_Amended ==
    /\ C8_Case(R_under) => output = R_under.actions
    /\ C8_Case(R_plain) => output = <<>>

\* the call with the rule _a_b_c == 5 has returned its one action
C8_Witness == C8_Case(R_under) /\ Len(output) = 1

RECURSIVE Flatten(_)
Flatten(lists) == IF lists = <<>> THEN <<>> ELSE lists[1] \o Flatten(Tail(lists))

\* the action lists, in RuleSet order, of the rules of rs that are triggered
TriggeredLists(rs) ==
    LET hit == SelectSeq(rs, Triggered)
    IN  [i \in 1..Len(hit) |-> hit[i].actions]

\* C9: when no rule raises, the output is the concatenation, in RuleSet
\* order, of the whole action lists of the rules that pass the pre-filter
\* and evaluate true; no RuleSet or an empty one gives the empty output.
C9_Concatenation ==
    pc = "ret" =>
        IF rules.none THEN output = <<>>
        ELSE (\A i \in 1..Len(rules.list) :
                  ~Raises(rules.list[i]) /\ ~RuleRaises(rules.list[i]))
                 => output = Flatten(TriggeredLists(rules.list))

\* two rules match, the second with two actions: three actions returned
C9_Witness ==
    /\ pc = "ret"
    /\ ~rules.none
    /\ Len(rules.list) = 2
    /\ Triggered(rules.list[1])
    /\ Triggered(rules.list[2])
    /\ rules.list[1] # rules.list[2]
    /\ Len(output) = 3

C10_Step ==
    /\ \A m \in DeviceMsgs :
           (Deliver(m) /\ Reserved(m.topic) /\ Changed(messages, m.topic, m.payload))
           => (pc' = "enter" /\ rule_filter' = m.topic)
    /\ (pc = "ret" /\ pc' = "idle" /\ Reserved(msg.topic))
           => /\ db_queue' = db_queue
              /\ Tuples(publish_queue') =
                     Tuples(publish_queue) \o [i \in 1..Len(output) |-> ActionTuple(output[i])]

\* C10: a state change on a topic under /global/ puts nothing on db_queue
\* and no ping request on publish_queue, yet evaluate_rules is called with
\* that topic as filter and every returned action is put on publish_queue.
C10_ReservedTopics == [][C10_Step]_vars


IsPing(r) == r.topic = TopicPing

Keys(kv) == {kv[i][1] : i \in 1..Len(kv)}

\* the device paths of the non-reserved updates recorded so far: each of
\* them put one record on db_queue, which nothing takes from in Spec
Recorded == {RSplitHead(db_queue[i][1]) : i \in 1..Len(db_queue)}

C11_Step ==
    (pc = "ret" /\ pc' = "idle" /\ ~Reserved(msg.topic)) =>
        LET pings == SelectSeq(NewRequests, IsPing)
        IN  /\ Len(pings) = 1
            /\ LET d == literal_eval(pings[1].payload)
               IN  /\ d.ok
                   /\ RSplitHead(msg.topic) \in Keys(d.kv)
                   /\ Recorded \subseteq Keys(d.kv)

\* C11: every state change on a topic outside /global/ puts exactly one
\* request for the ping topic on publish_queue, and its payload has an
\* entry for the device path of the updated topic and for the device path
\* of every earlier non-reserved update, whether or not the earlier ping
\* publishes have come back to on_message.
C11_Aggregate == [][C11_Step]_vars


C12_Step ==
    (pc = "ret" /\ pc' = "idle" /\ ~Reserved(msg.topic)) =>
        db_queue' = Append(db_queue, <<msg.topic, msg.payload>>)

\* C12: every state change on a topic outside /global/ puts exactly one
\* (topic, payload) record for it on db_queue, and the handler can always
\* go on to do so, whatever db_queue holds and whether or not anything
\* takes records from it.
C12_Persistence == [](pc = "ret" => ENABLED Dispatch) /\ [][C12_Step]_vars


C13_Step ==
    /\ published' # published => (DrainPublish \/ DrainIteration)
    /\ (intake_vars' # intake_vars \/ gate' # gate) => published' = published
    /\ (pc = "ret" /\ pc' = "idle") =>
           /\ Len(publish_queue') >= Len(publish_queue)
           /\ SubSeq(publish_queue', 1, Len(publish_queue)) = publish_queue

\* C13: Reentrancy safety.  The history of publish calls grows only in a
\* step of the drain loop of MQTTInterface.start; no step of on_message or
\* of evaluate_rules adds to it.  on_message only appends to
\* publish_queue, and its put never finds the queue full.
C13_Reentrancy == [](~QueueFull(publish_queue)) /\ [][C13_Step]_vars

\* a rule action and a ping record were enqueued by on_message and all of
\* them have been published by the drain loop
C13_Witness ==
    /\ pc = "idle"
    /\ publish_queue = <<>>
    /\ Len(published) = nenq
    /\ \E i \in 1..Len(published) : published[i].src = "rule"
    /\ \E i \in 1..Len(published) : published[i].src = "ping"


\* C14: Cancellation of the reload loop.  Between two iterations of
\* load_and_run, with the stop signal set, the loop does not begin another
\* iteration; and once the stop signal is set the loop eventually ends.
C14_ReloadStops ==
    /\ [](stop_event /\ pcw = "run" => ~ENABLED Poll)
    /\ stop_event ~> (pcw # "run")


\* the drain loop is alive: its thread has a next step
DrainCanStep == ENABLED DrainCheck \/ ENABLED DrainPublish
                    \/ ENABLED DrainEmpty \/ ENABLED DrainExit

C15_Step ==
    /\ pcd = "body" => pcd' # "stopped"
    /\ (pcd = "body" /\ pcd' # "body") =>
           \/ publish_queue = <<>> /\ published' = published
           \/ publish_queue # <<>> /\ published' = Append(published, Head(publish_queue))
    /\ pcd = "stopped" =>
           /\ pcd' = "stopped"
           /\ pc = "idle" => (pc' = "idle" /\ messages' = messages)

\* C15: Cancellation of the dispatcher.  Once the stop signal is set the
\* drain loop of MQTTInterface.start reaches its exit, where loop_stop ends
\* the intake loop: after it no message is delivered.  The signal is read
\* at the loop test only: an iteration that has passed the test never
\* jumps to the exit, and when it has a request it publishes it, stop
\* signal or not.
C15_DispatcherStops ==
    /\ [](pcd = "body" /\ publish_queue # <<>> => ENABLED DrainPublish)
    /\ [](stop_event /\ pcd # "stopped" => DrainCanStep)
    /\ [][C15_Step]_vars
    /\ stop_event ~> (pcd = "stopped")


\* the full parsed content of the document the source holds
SourceRules == SomeRules(RuleDoc(file.doc))

SourceParsable == file.exists /\ Parsable(file.doc)

C16_Step ==
    (Poll /\ last_modified_time # NoTime
          /\ StatTime(current_modified_time) = last_modified_time)
    => rules' = rules

\* C16: Hot reload.  A poll that finds the fingerprint unchanged leaves
\* self.rules as it is.  While the source holds a parsable document that is
\* not the current RuleSet, the reload loop has a poll ahead of it that
\* loads that document in full; and when the source stays at a parsable
\* document, self.rules eventually is its parsed content and stays so.
C16_HotReload ==
    /\ [][C16_Step]_vars
    /\ []((SourceParsable /\ rules # SourceRules)
              => ENABLED (Poll /\ rules' = SourceRules))
    /\ (<>[]SourceParsable => <>[](rules = SourceRules))


\* the last load attempt of the reload loop failed
LoadFailed == rules.none /\ last_modified_time # NoTime

\* C17: Source-error retry.  The reload loop never ends because of a
\* missing, unreadable or unparsable source; after a failed load attempt
\* the next poll attempts the load again, changed fingerprint or not; and
\* when the source stays at a readable, parsable document it is
\* eventually loaded.
C17_SourceRetry ==
    /\ [](pcw = "run")
    /\ [](LoadFailed => Reloads(StatTime(current_modified_time)))
    /\ (<>[]SourceParsable => <>(rules = SourceRules))


C18_Step ==
    /\ \A m \in DeviceMsgs :
           (Deliver(m) /\ rules.none /\ StartsWith(m.topic, <<"/">>)) =>
               /\ m.topic \in DOMAIN messages'
               /\ messages'[m.topic] = m.payload
    /\ (pc = "enter" /\ pc' # "enter" /\ rules.none) =>
           /\ pc' = "ret"
           /\ output' = <<>>
           /\ iterated' = <<>>
    /\ (pc = "ret" /\ pc' = "idle" /\ iterated = <<>> /\ output = <<>>) =>
           /\ \A i \in 1..Len(NewRequests) : NewRequests[i].src # "rule"
           /\ ~Reserved(msg.topic) =>
                  db_queue' = Append(db_queue, <<msg.topic, msg.payload>>)

\* C18: while self.rules is None (the first load failed or has not been
\* made), a delivered message still updates the store; evaluate_rules,
\* called for it, returns the empty list at once, without visiting a rule
\* and without raising: on_message goes on to its persistence step and
\* enqueues no rule action.
C18_NoRuleSet == [][C18_Step]_vars

\* no RuleSet is loaded, the source holds a rule that the stored update
\* would trigger, and evaluate_rules has returned the empty list
C18_Witness ==
    /\ pc = "ret"
    /\ rules.none
    /\ msg = [topic |-> T_abc, payload |-> <<"5">>]
    /\ T_abc \in DOMAIN messages
    /\ messages[T_abc] = <<"5">>
    /\ file.doc = "A"
    /\ iterated = <<>>
    /\ output = <<>>


\* this step is on_message receiving payload p on topic t
Delivery(t, p) ==
    \/ \E m \in DeviceMsgs : m.topic = t /\ m.payload = p /\ Deliver(m)
    \/ net # <<>> /\ EchoMsg.topic = t /\ EchoMsg.payload = p /\ ReceiveEcho

Payloads ==
    {m.payload : m \in DeviceMsgs} \cup {net[i].payload : i \in 1..Len(net)}

C19_Step ==
    /\ \A m \in DeviceMsgs :
           (Deliver(m) /\ StartsWith(m.topic, <<"/">>)) =>
               (m.topic \in DOMAIN messages' /\ messages'[m.topic] = m.payload)
    /\ (net # <<>> /\ ReceiveEcho /\ StartsWith(EchoMsg.topic, <<"/">>)) =>
           (EchoMsg.topic \in DOMAIN messages'
                /\ messages'[EchoMsg.topic] = EchoMsg.payload)
    /\ \A t \in DOMAIN messages :
           /\ t \in DOMAIN messages'
           /\ messages'[t] # messages[t] =>
                  \E p \in Payloads : Delivery(t, p) /\ messages'[t] = p

\* C19: Last-write-wins.  When on_message receives a payload on a topic
\* that starts with '/', the store holds that payload for the topic from
\* then on; an entry of the store changes only in the step that receives
\* a message on its topic, never in a step of rule evaluation, dispatch,
\* persistence or the ping record.  Hence the store holds, for every topic
\* a message was delivered on, the last payload delivered.
C19_LastWriteWins == [][C19_Step]_vars

\* two payloads were delivered on /a/b/c, each processed to the end, and
\* the store holds the second
C19_Witness ==
    /\ pc = "idle"
    /\ Len(db_queue) = 2
    /\ db_queue[1] = <<T_abc, <<"5">>>>
    /\ db_queue[2] = <<T_abc, <<"6">>>>
    /\ messages[T_abc] = <<"6">>


\* this step is a call of client.publish that fails
FailedPublish ==
    /\ pcd = "body"
    /\ pcd' # "body"
    /\ publish_queue # <<>>
    /\ PublishRaises(Head(publish_queue))

C20_Step ==
    FailedPublish =>
        /\ pcd' = "run"
        /\ publish_queue' = Tail(publish_queue)

\* C20: Publish failure is contained.  A request whose publish fails is
\* taken off the queue and never handed to publish again; the drain loop
\* is at its loop test afterwards; and, the stop signal never set, every
\* request on publish_queue is published in its turn.
C20_PublishContained ==
    /\ [][C20_Step]_vars
    /\ [](\A i, j \in 1..Len(published) :
              published[i].seq = published[j].seq => i = j)
    /\ ([]~stop_event => []<>(publish_queue = <<>>))


\* the rules of rs before the first one whose record raises
RECURSIVE UntilRaise(_)
UntilRaise(rs) ==
    IF rs = <<>> \/ RuleRaises(rs[1]) THEN <<>>
    ELSE <<rs[1]>> \o UntilRaise(Tail(rs))

\* C21: when an exception that is neither a syntax error nor an unresolved
\* identifier occurs in a pass, evaluate_rules still returns, and its output
\* is exactly the actions of the triggered rules visited before the
\* failure: none when the preprocessing of the snapshot fails, and no
\* action of the failing rule or of a rule after it.
C21_UnexpectedError ==
    (pc = "ret" /\ ~rules.none /\ UnexpectedError)
    => /\ output = IF PreprocessRaises(messages) THEN <<>>
                   ELSE ExpectedOutput(UntilRaise(rules.list))
       /\ IsPrefix(iterated, rules.list)
       /\ Len(iterated) <= Len(UntilRaise(rules.list)) + 1

\* a matching rule, then a record without actions: the pass has returned
\* the actions of the first
C21_Witness ==
    /\ pc = "ret"
    /\ ~rules.none
    /\ ~PreprocessRaises(messages)
    /\ Len(rules.list) = 2
    /\ Triggered(rules.list[1])
    /\ RuleRaises(rules.list[2])
    /\ iterated = rules.list
    /\ output = rules.list[1].actions


\* the text is an integer numeral: an optional sign and digits
IntegerText(w) == IsDigits(Unsigned(w))

\* the text is a real numeral and no integer numeral
RealText(w) == ~IntegerText(w) /\ Len(w) > 0 /\ FloatParses(w)

BoolText(w) == Lower(w) \in {<<"t", "r", "u", "e">>, <<"f", "a", "l", "s", "e">>}

\* C22: get_var of a str applies the precedence integer, real, boolean,
\* structured literal, original string: an integer numeral gives the
\* integer of its value and never a real, a real numeral gives a real and
\* never an integer, "True" and "false" in any case give the booleans,
\* a result that is a structured value comes from a text that is none of
\* the former, and a result that is a str is the argument itself.  "5"
\* gives 5, "5.0" gives 5.0, "{'a': 1}" gives {'a': 1}, "hello" gives
\* "hello".
C22_Precedence ==
    (var_out # NoVar /\ var_in.t = "str") =>
        LET w == var_in.s IN
        /\ IntegerText(w) => var_out = PyInt(IntValue(w))
        /\ RealText(w) => var_out = PyFloat(w)
        /\ (~IntegerText(w) /\ ~RealText(w) /\ BoolText(w)) =>
               var_out = PyBool(Lower(w) = <<"t", "r", "u", "e">>)
        /\ var_out.t = "dict" => ~IntegerText(w) /\ ~RealText(w) /\ ~BoolText(w)
        /\ var_out.t = "str" => var_out = var_in
        /\ w = T_5 => var_out = PyInt(5)
        /\ w = T_5_0 => var_out = PyFloat(T_5_0)
        /\ w = T_True => var_out = PyBool(TRUE)
        /\ w = T_false => var_out = PyBool(FALSE)
        /\ w = T_a1 => var_out = PyDict(T_a1)
        /\ w = T_hello => var_out = Str(T_hello)

\* get_var("{'a': 1}") has returned the dict
C22_Witness ==
    /\ var_in = Str(T_a1)
    /\ var_out.t = "dict"
    /\ literal_eval(var_out.s).kv = <<(<<(<<"a">>), (<<"1">>), FALSE>>)>>

\* C23: get_var raises no exception for any argument; an argument that is
\* an integer, a real, a boolean or a dict already is returned unchanged;
\* a str that parses at no level is returned unchanged.
C23_NoException ==
    var_out # NoVar =>
        /\ var_out.t # "raise"
        /\ var_in.t \in {"int", "float", "bool", "dict"} => var_out = var_in
        /\ (var_in.t = "str" /\ var_out.t \notin {"int", "float", "bool", "dict"})
               => var_out = var_in


C24_Step ==
    /\ (pc = "idle" /\ pc' = "enter")
           => /\ msg'.topic \in DOMAIN messages'
              /\ messages'[msg'.topic] = msg'.payload
              /\ rule_filter' = msg'.topic
              /\ \A t \in DOMAIN messages : t \in DOMAIN messages'
    /\ (pc = "enter" /\ pc' = "iter")
           => /\ messages[msg.topic] = msg.payload
              /\ rule_filter = msg.topic
              /\ preprocessed_data' = _preprocess_data(messages)
              /\ preprocessed_data'[Replace(msg.topic, "/", "_")]
                     = get_var(Str(msg.payload))
    /\ (pc = "ret" /\ pc' = "idle")
           => \A i \in 1..Len(NewRequests) :
                  NewRequests[i].src = "ping"
                  => /\ i = Len(output) + 1
                     /\ i = Len(NewRequests)
                     /\ \A k \in 1..Len(output) :
                            Tuples(NewRequests)[k] = ActionTuple(output[k])

\* C24: in on_message the store holds the new value of the triggering
\* topic, and every entry it held before, when evaluate_rules is called;
\* the pass works on the coerced copy of that whole store with the
\* triggering topic as filter; and when the ping request of an update is
\* put on publish_queue, the requests of all actions returned for that
\* update have been put before it, in the returned order.
C24_StepOrder == [][C24_Step]_vars

\* an update whose rule matched: its two action requests are on the queue
\* and the ping request of the same update right behind them
C24_Witness ==
    /\ pc = "idle"
    /\ Len(publish_queue) >= 3
    /\ \E i \in 1..(Len(publish_queue) - 2) :
           /\ publish_queue[i].src = "rule"
           /\ publish_queue[i + 1].src = "rule"
           /\ publish_queue[i + 2].src = "ping"
           /\ publish_queue[i + 1].seq = publish_queue[i].seq + 1
           /\ publish_queue[i + 2].seq = publish_queue[i].seq + 2


C25_Step ==
    (pc = "ret" /\ pc' = "idle") =>
        LET can == SelectSeq(output, LAMBDA a : ~ActionRaises(a))
            put == SelectSeq(NewRequests, LAMBDA r : r.src = "rule")
        IN  /\ Tuples(put) = [k \in 1..Len(can) |-> ActionTuple(can[k])]
            /\ ~Reserved(msg.topic) =>
                   /\ db_queue' = Append(db_queue, <<msg.topic, msg.payload>>)
                   /\ \E i \in 1..Len(NewRequests) : NewRequests[i].src = "ping"

\* C25: for one accepted update every returned action that can be
\* dispatched is put on publish_queue as one request (topic, serialized
\* params), in the returned order; an action that cannot be dispatched
\* stops neither the requests of the other actions nor, outside /global/,
\* the record on db_queue and the ping request of that update.
C25_DispatchContained == [][C25_Step]_vars


\* no request was handed to client.publish twice
C26_Once ==
    \A i, j \in 1..Len(published) :
        i # j => published[i].seq # published[j].seq

\* what is handed to client.publish is one element of publish_queue, and
\* the step takes it off the queue
C26_Step ==
    published' # published =>
        \E j \in 1..Len(publish_queue) :
            /\ published' = Append(published, publish_queue[j])
            /\ publish_queue' = SubSeq(publish_queue, 1, j - 1)
                                 \o SubSeq(publish_queue, j + 1, Len(publish_queue))

\* C26: the drain loop publishes only requests taken from publish_queue
\* and each of them once; with the stop signal never set (it never is in
\* these runs) and under fair scheduling of the drain loop, the queue is
\* empty again and again unless a publish has failed: every request put
\* on it has then been published.
C26_ExactlyOnce ==
    /\ []C26_Once
    /\ [][C26_Step]_vars
    /\ []<>(publish_queue = <<>> \/ pcd = "dead")

\* three requests were put on the queue and the drain loop, still running,
\* has published them all
C26_Witness ==
    /\ ~stop_event
    /\ pcd = "run"
    /\ nenq >= 3
    /\ publish_queue = <<>>
    /\ Len(published) = nenq

====
